---- MODULE Spec2Model ----
(***************************************************************************)
(* Lowering of STOP / ERROR STOP, PAUSE, ASSOCIATED and the RANDOM_*       *)
(* intrinsics to runtime calls (flang/lib/Lower/Runtime.cpp).              *)
(*                                                                         *)
(* The builder state is the list of blocks of the region under             *)
(* construction (in region order, each with the operations it holds), the  *)
(* insertion point, and the set of runtime functions declared in the       *)
(* module.  One action per entry point of the file lowers one statement    *)
(* or intrinsic call to completion.                                        *)
(***************************************************************************)
EXTENDS Integers, Sequences, FiniteSets, TLC

VARIABLES blocks, ip, funcs, status, diags, stmt, lowered

vars == <<blocks, ip, funcs, status, diags, stmt, lowered>>

(* ------------------------------ bounds --------------------------------- *)

\* Number of statements / intrinsic calls lowered in one run.
MaxLowerings == 2

\* Number of ordinary operations the current block may already hold.
MaxPre == 2

(* ------------------------- values and operations ----------------------- *)

\* An SSA value: its type, where it comes from, and (for constants and the
\* line number) its integer payload.
Value(ty, src, k) == [ty |-> ty, src |-> src, k |-> k]

\* An operation held by a block.
Op(op, callee, args, succ) ==
    [op |-> op, callee |-> callee, args |-> args, succ |-> succ]

OtherOp == Op("other", "", <<>>, {})

BranchOp(target) == Op("br", "", <<>>, {target})

IsTerminator(o) == o.op \in {"br", "unreachable"}

\* Formal parameter types of the runtime entries (flang/Runtime/stop.h,
\* pointer.h, random.h), in declaration order.
RuntimeSignature(key) ==
    CASE key = "StopStatement"           -> <<"i32", "i1", "i1">>
      [] key = "StopStatementText"       -> <<"ref_i8", "i64", "i1", "i1">>
      [] key = "PauseStatement"          -> <<>>
      [] key = "PointerIsAssociatedWith" -> <<"box", "box">>
      [] key = "RandomInit"              -> <<"i1", "i1">>
      [] key = "RandomNumber"            -> <<"box", "ref_i8", "i32">>
      [] key = "RandomSeedDefaultPut"    -> <<>>
      [] key = "RandomSeedSize"          -> <<"box", "ref_i8", "i32">>
      [] key = "RandomSeedPut"           -> <<"box", "ref_i8", "i32">>
      [] key = "RandomSeedGet"           -> <<"box", "ref_i8", "i32">>

RuntimeKeys ==
    {"StopStatement", "StopStatementText", "PauseStatement",
     "PointerIsAssociatedWith", "RandomInit", "RandomNumber",
     "RandomSeedDefaultPut", "RandomSeedSize", "RandomSeedPut",
     "RandomSeedGet"}

\* The entries whose signature declares (sourceFile, sourceLine).
DeclaresSourceLoc(key) ==
    key \in {"RandomNumber", "RandomSeedSize", "RandomSeedPut", "RandomSeedGet"}

\* calleeType.getInput(i), i counted from 0.
getInput(sig, i) == sig[i + 1]

(* ------------------------------ builder -------------------------------- *)

\* Position of the block `id` in the region's block list.
BlockIndex(bs, id) == CHOOSE i \in 1..Len(bs) : bs[i].id = id

InsertAt(s, pos, e) == SubSeq(s, 1, pos) \o <<e>> \o SubSeq(s, pos + 1, Len(s))

\* builder.create<Op>: the operation goes in before the insertion point,
\* which stays in front of the operation that followed it.
create(b, o) ==
    LET i == BlockIndex(b.blocks, b.ip.block)
    IN  [b EXCEPT !.blocks[i].ops = InsertAt(@, b.ip.pos, o),
                  !.ip.pos = @ + 1]

\* builder.createConvert: a value already of the wanted type is returned as
\* it is; otherwise a convert operation is emitted and its result returned.
createConvert(b, toTy, val) ==
    IF val.ty # toTy
    THEN LET r == [val EXCEPT !.ty = toTy]
         IN  [b |-> create(b, Op("convert", "", <<val, r>>, {})), v |-> r]
    ELSE [b |-> b, v |-> val]

\* builder.createIntegerConstant: emits a constant of the given type.
createIntegerConstant(b, ty, c) ==
    LET r == Value(ty, "const", c)
    IN  [b |-> create(b, Op("constant", "", <<r>>, {})), v |-> r]

\* fir::runtime::getRuntimeFunc: the entry's declaration is looked up in
\* the module and added when it is not there yet.
getRuntimeFunc(b, key) == [b EXCEPT !.funcs = @ \cup {key}]

\* builder.create<fir::CallOp>(loc, callee, operands).
createCall(b, callee, operands) == create(b, Op("call", callee, operands, {}))

\* Block::splitBlock(it): the operations from `it` to the end move to a new
\* block placed right after this one in the region; no branch is added.
splitBlock(b) ==
    LET i   == BlockIndex(b.blocks, b.ip.block)
        cur == b.blocks[i]
        new == [id  |-> Len(b.blocks) + 1,
                ops |-> SubSeq(cur.ops, b.ip.pos + 1, Len(cur.ops))]
    IN  [b EXCEPT !.blocks =
             SubSeq(b.blocks, 1, i - 1)
             \o <<[cur EXCEPT !.ops = SubSeq(cur.ops, 1, b.ip.pos)], new>>
             \o SubSeq(b.blocks, i + 1, Len(b.blocks))]

\* builder.setInsertionPointToStart(block).
setInsertionPointToStart(b, id) == [b EXCEPT !.ip = [block |-> id, pos |-> 0]]

genUnreachable_NewEmptyBlock(b) ==
    LET b1  == create(b, Op("unreachable", "", <<>>, {}))
        i   == BlockIndex(b1.blocks, b1.ip.block)
        new == [id |-> Len(b1.blocks) + 1, ops |-> <<>>]
        b2  == [b1 EXCEPT !.blocks = SubSeq(b1.blocks, 1, i) \o <<new>>
                                     \o SubSeq(b1.blocks, i + 1, Len(b1.blocks))]
    IN  setInsertionPointToStart(b2, Len(b2.blocks))

genUnreachable_Branch(b) ==
    LET b1 == create(b, BranchOp(Len(b.blocks) + 1))
        b2 == splitBlock(b1)
    IN  setInsertionPointToStart(b2, Len(b2.blocks))

\* genUnreachable: terminate the block with an unreachable, split it at the
\* insertion point and continue at the start of the new block.
genUnreachable(b) ==
    LET b1 == create(b, Op("unreachable", "", <<>>, {}))
        b2 == splitBlock(b1)
    IN  setInsertionPointToStart(b2, Len(b2.blocks))

(* ----------------------------- statements ------------------------------ *)

\* A statement node or intrinsic call together with the current location.
\*   code     "absent", or the variant of the evaluated stop code:
\*            "char" (CharBoxValue), "unboxed" (UnboxedValue), "other"
\*   codeTy   type of the stop code value (of the address, for "char")
\*   kind     "Stop" or "ErrorStop"
\*   quiet    "absent" or the type of the evaluated QUIET= operand
\*   argIndex RANDOM_SEED argument index
\*   argTy    type of the value operands of an intrinsic call
\*   line     line of converter.getCurrentLocation() / loc
Stmt(driver, code, codeTy, kind, quiet, argIndex, argTy, line) ==
    [driver |-> driver, code |-> code, codeTy |-> codeTy, kind |-> kind,
     quiet |-> quiet, argIndex |-> argIndex, argTy |-> argTy, line |-> line]

NoStmt == Stmt("none", "absent", "none", "Stop", "absent", 0, "none", 0)

\* Length type carried by a CharBoxValue whose address has type ty.
CharLenType(ty) == IF ty = "ref_i8" THEN "i64" ELSE "index"

BoolInt(x) == IF x THEN 1 ELSE 0

(* -------------------------- genStopStatement --------------------------- *)

\* The stop code is a CharBoxValue: StopStatementText, with a pair of
\* operands for the CHARACTER and its LEN.
StopCodeText(b, s) ==
    LET b1  == getRuntimeFunc(b, "StopStatementText")
        sig == RuntimeSignature("StopStatementText")
        a   == createConvert(b1, getInput(sig, 0), Value(s.codeTy, "addr", 0))
        l   == createConvert(a.b, getInput(sig, 1),
                             Value(CharLenType(s.codeTy), "len", 0))
    IN  [b |-> l.b, callee |-> "StopStatementText",
         operands |-> <<a.v, l.v>>, ok |-> TRUE]

\* The stop code is an UnboxedValue: StopStatement, with the value cast to
\* the type of the first formal.
StopCodeValue(b, s) ==
    LET b1  == getRuntimeFunc(b, "StopStatement")
        sig == RuntimeSignature("StopStatement")
        c   == createConvert(b1, getInput(sig, 0), Value(s.codeTy, "code", 0))
    IN  [b |-> c.b, callee |-> "StopStatement",
         operands |-> <<c.v>>, ok |-> TRUE]

StopCodeAbsent_One(b, s) ==
    LET b1  == getRuntimeFunc(b, "StopStatement")
        sig == RuntimeSignature("StopStatement")
        z   == createIntegerConstant(b1, getInput(sig, 0), 1)
    IN  [b |-> z.b, callee |-> "StopStatement",
         operands |-> <<z.v>>, ok |-> TRUE]

\* No stop code: StopStatement with the constant zero.
StopCodeAbsent(b, s) ==
    LET b1  == getRuntimeFunc(b, "StopStatement")
        sig == RuntimeSignature("StopStatement")
        z   == createIntegerConstant(b1, getInput(sig, 0), 0)
    IN  [b |-> z.b, callee |-> "StopStatement",
         operands |-> <<z.v>>, ok |-> TRUE]

\* First operand(s): the stop code, zero if absent.  ok = FALSE when the
\* evaluated code is neither a CharBoxValue nor an UnboxedValue.
StopCode(b, s) ==
    IF s.code = "absent" THEN StopCodeAbsent(b, s)
    ELSE IF s.code = "char" THEN StopCodeText(b, s)
    ELSE IF s.code = "unboxed" THEN StopCodeValue(b, s)
    ELSE [b |-> b, callee |-> "", operands |-> <<>>, ok |-> FALSE]

StopIsError_Inverted(s) == s.kind # "ErrorStop"

\* Second operand indicates ERROR STOP.
StopIsError(s) == s.kind = "ErrorStop"

StopFlags_FirstFormal(c, s) ==
    LET sig == RuntimeSignature(c.callee)
        e   == createIntegerConstant(c.b, getInput(sig, 0),
                                     BoolInt(StopIsError(s)))
        o1  == Append(c.operands, e.v)
        q   == IF s.quiet # "absent"
               THEN createConvert(e.b, getInput(sig, Len(o1)),
                                  Value(s.quiet, "quiet", 0))
               ELSE createIntegerConstant(e.b, getInput(sig, Len(o1)), 0)
    IN  [b |-> q.b, callee |-> c.callee, operands |-> Append(o1, q.v)]

\* Second and third operands: isError, then QUIET (default to false), each
\* typed by the formal at the position it is pushed to.
StopFlags(c, s) ==
    LET sig == RuntimeSignature(c.callee)
        e   == createIntegerConstant(c.b, getInput(sig, Len(c.operands)),
                                     BoolInt(StopIsError(s)))
        o1  == Append(c.operands, e.v)
        q   == IF s.quiet # "absent"
               THEN createConvert(e.b, getInput(sig, Len(o1)),
                                  Value(s.quiet, "quiet", 0))
               ELSE createIntegerConstant(e.b, getInput(sig, Len(o1)), 0)
    IN  [b |-> q.b, callee |-> c.callee, operands |-> Append(o1, q.v)]

genStopStatement_ResolveFirst(b, s, dg) ==
    LET b0 == getRuntimeFunc(b, "StopStatement")
        c  == StopCode(b0, s)
    IN  IF ~c.ok
        THEN [b |-> b0, status |-> "exited",
              diags |-> Append(dg, [line |-> s.line,
                                    msg  |-> "unhandled expression in STOP"])]
        ELSE LET f == StopFlags(c, s)
             IN  [b |-> genUnreachable(createCall(f.b, f.callee, f.operands)),
                  status |-> "running", diags |-> dg]

genStopStatement(b, s, dg) ==
    LET c == StopCode(b, s)
    IN  IF ~c.ok
        THEN [b |-> b, status |-> "exited",
              diags |-> Append(dg, [line |-> s.line,
                                    msg  |-> "unhandled expression in STOP"])]
        ELSE LET f == StopFlags(c, s)
             IN  [b |-> genUnreachable(createCall(f.b, f.callee, f.operands)),
                  status |-> "running", diags |-> dg]

(* -------------------------- genPauseStatement -------------------------- *)

genPauseStatement_Terminating(b, s, dg) ==
    LET b1 == getRuntimeFunc(b, "PauseStatement")
    IN  [b |-> genUnreachable(createCall(b1, "PauseStatement", <<>>)),
         status |-> "running", diags |-> dg]

genPauseStatement(b, s, dg) ==
    LET b1 == getRuntimeFunc(b, "PauseStatement")
    IN  [b |-> createCall(b1, "PauseStatement", <<>>),
         status |-> "running", diags |-> dg]

(* ------------------------------ intrinsics ----------------------------- *)

\* fir::runtime::createArguments: each argument converted to the formal
\* type of its own position.
RECURSIVE createArgumentsFrom(_, _, _, _)
createArgumentsFrom(b, sig, args, i) ==
    IF i > Len(args) THEN [b |-> b, operands |-> <<>>]
    ELSE LET c    == createConvert(b, sig[i], args[i])
             rest == createArgumentsFrom(c.b, sig, args, i + 1)
         IN  [b |-> rest.b, operands |-> <<c.v>> \o rest.operands]

createArguments(b, sig, args) == createArgumentsFrom(b, sig, args, 1)

\* fir::factory::locationToFilename: address of a string literal holding
\* the file name of loc.
locationToFilename(b, line) ==
    LET r == Value("ref_char", "sourceFile", 0)
    IN  [b |-> create(b, Op("constant", "", <<r>>, {})), v |-> r]

\* fir::factory::locationToLineNo: the line of loc as a constant of type ty.
locationToLineNo(b, line, ty) ==
    LET r == Value(ty, "sourceLine", line)
    IN  [b |-> create(b, Op("constant", "", <<r>>, {})), v |-> r]

genAssociated(b, s, dg) ==
    LET b1 == getRuntimeFunc(b, "PointerIsAssociatedWith")
        a  == createArguments(b1, RuntimeSignature("PointerIsAssociatedWith"),
                              <<Value(s.argTy, "pointer", 0),
                                Value(s.argTy, "target", 0)>>)
    IN  [b |-> createCall(a.b, "PointerIsAssociatedWith", a.operands),
         status |-> "running", diags |-> dg]

genRandomInit_NoCall(b, s, dg) ==
    LET b1 == getRuntimeFunc(b, "RandomInit")
        a  == createArguments(b1, RuntimeSignature("RandomInit"),
                              <<Value(s.argTy, "repeatable", 0),
                                Value(s.argTy, "imageDistinct", 0)>>)
    IN  [b |-> a.b, status |-> "running", diags |-> dg]

genRandomInit(b, s, dg) ==
    LET b1 == getRuntimeFunc(b, "RandomInit")
        a  == createArguments(b1, RuntimeSignature("RandomInit"),
                              <<Value(s.argTy, "repeatable", 0),
                                Value(s.argTy, "imageDistinct", 0)>>)
    IN  [b |-> createCall(a.b, "RandomInit", a.operands),
         status |-> "running", diags |-> dg]

CallWithSourceLoc_LineFirst(b, key, box, line) ==
    LET funcTy == RuntimeSignature(key)
        file   == locationToFilename(b, line)
        lineNo == locationToLineNo(file.b, line, getInput(funcTy, 2))
        a      == createArguments(lineNo.b, funcTy, <<box, lineNo.v, file.v>>)
    IN  createCall(a.b, key, a.operands)

\* The call of an entry taking (box, sourceFile, sourceLine).
CallWithSourceLoc(b, key, box, line) ==
    LET funcTy == RuntimeSignature(key)
        file   == locationToFilename(b, line)
        lineNo == locationToLineNo(file.b, line, getInput(funcTy, 2))
        a      == createArguments(lineNo.b, funcTy, <<box, file.v, lineNo.v>>)
    IN  createCall(a.b, key, a.operands)

genRandomNumber(b, s, dg) ==
    LET b1 == getRuntimeFunc(b, "RandomNumber")
    IN  [b |-> CallWithSourceLoc(b1, "RandomNumber",
                                 Value(s.argTy, "harvest", 0), s.line),
         status |-> "running", diags |-> dg]

RandomSeedEntry_PutGetSwapped(argIndex) ==
    CASE argIndex = -1 -> "RandomSeedDefaultPut"
      [] argIndex = 0  -> "RandomSeedSize"
      [] argIndex = 1  -> "RandomSeedGet"
      [] argIndex = 2  -> "RandomSeedPut"
      [] OTHER         -> ""

\* The switch on argIndex: the entry selected, "" for the default case.
RandomSeedEntry(argIndex) ==
    CASE argIndex = -1 -> "RandomSeedDefaultPut"
      [] argIndex = 0  -> "RandomSeedSize"
      [] argIndex = 1  -> "RandomSeedPut"
      [] argIndex = 2  -> "RandomSeedGet"
      [] OTHER         -> ""

genRandomSeed(b, s, dg) ==
    LET key == RandomSeedEntry(s.argIndex)
    IN  IF key = ""
        THEN [b |-> b, status |-> "fatal",
              diags |-> Append(dg, [line |-> 0,
                                    msg  |-> "invalid RANDOM_SEED argument index"])]
        ELSE IF s.argIndex = -1
        THEN [b |-> createCall(getRuntimeFunc(b, key), key, <<>>),
              status |-> "running", diags |-> dg]
        ELSE [b |-> CallWithSourceLoc(getRuntimeFunc(b, key), key,
                                      Value(s.argTy, "argBox", 0), s.line),
              status |-> "running", diags |-> dg]

(* ------------------------------ the machine ---------------------------- *)

\* Contents a block under construction may have when a statement is
\* lowered into it: ordinary operations, closed or not by a branch.
RECURSIVE Others(_)
Others(n) == IF n = 0 THEN <<>> ELSE Append(Others(n - 1), OtherOp)

EntryBlock == 1
ExitBlock  == 2

Init ==
    /\ \E n \in 0..MaxPre, closed \in BOOLEAN, pos \in 0..MaxPre :
          /\ pos <= n
          /\ blocks = << [id  |-> EntryBlock,
                          ops |-> IF closed
                                  THEN Append(Others(n), BranchOp(ExitBlock))
                                  ELSE Others(n)],
                         [id |-> ExitBlock, ops |-> <<>>] >>
          /\ ip = [block |-> EntryBlock, pos |-> pos]
    /\ funcs = {}
    /\ status = "running"
    /\ diags = <<>>
    /\ stmt = NoStmt
    /\ lowered = 0

Builder == [blocks |-> blocks, ip |-> ip, funcs |-> funcs]

\* Line of the current location: statements sit on successive lines.
CurrentLine == lowered + 1

QuietOperands == {"absent", "logical"}

CanLower == status = "running" /\ lowered < MaxLowerings

\* The statement s has been lowered with outcome out.
Lowered(s, out) ==
    /\ blocks' = out.b.blocks
    /\ ip' = out.b.ip
    /\ funcs' = out.b.funcs
    /\ status' = out.status
    /\ diags' = out.diags
    /\ stmt' = s
    /\ lowered' = IF out.status = "running" THEN lowered + 1 ELSE lowered

StopStmts ==
    { Stmt("stop", "char", ty, k, q, 0, "none", CurrentLine) :
        ty \in {"ref_i8", "ref_char"}, k \in {"Stop", "ErrorStop"},
        q \in QuietOperands }
    \cup
    { Stmt("stop", "unboxed", ty, k, q, 0, "none", CurrentLine) :
        ty \in {"i32", "i64"}, k \in {"Stop", "ErrorStop"},
        q \in QuietOperands }
    \cup
    { Stmt("stop", "absent", "none", k, q, 0, "none", CurrentLine) :
        k \in {"Stop", "ErrorStop"},
        q \in QuietOperands }
    \cup
    { Stmt("stop", "other", "box", k, q, 0, "none", CurrentLine) :
        k \in {"Stop", "ErrorStop"},
        q \in QuietOperands }

SeedIndexes == -2..3

LowerStop ==
    /\ CanLower
    /\ \E s \in StopStmts : Lowered(s, genStopStatement(Builder, s, diags))

LowerPause ==
    /\ CanLower
    /\ LET s == Stmt("pause", "absent", "none", "Stop", "absent", 0, "none",
                       CurrentLine)
         IN  Lowered(s, genPauseStatement(Builder, s, diags))

LowerAssociated ==
    /\ CanLower
    /\ \E ty \in {"box", "ref_box"} :
         LET s == Stmt("associated", "absent", "none", "Stop", "absent", 0, ty,
                       CurrentLine)
         IN  Lowered(s, genAssociated(Builder, s, diags))

LowerRandomInit ==
    /\ CanLower
    /\ \E ty \in {"i1", "logical"} :
         LET s == Stmt("randomInit", "absent", "none", "Stop", "absent", 0, ty,
                       CurrentLine)
         IN  Lowered(s, genRandomInit(Builder, s, diags))

LowerRandomNumber ==
    /\ CanLower
    /\ \E ty \in {"box", "ref_box"} :
         LET s == Stmt("randomNumber", "absent", "none", "Stop", "absent", 0, ty,
                       CurrentLine)
         IN  Lowered(s, genRandomNumber(Builder, s, diags))

LowerRandomSeed ==
    /\ CanLower
    /\ \E i \in SeedIndexes, ty \in {"box", "ref_box"} :
         LET s == Stmt("randomSeed", "absent", "none", "Stop", "absent", i, ty,
                       CurrentLine)
         IN  Lowered(s, genRandomSeed(Builder, s, diags))

Next ==
    \/ LowerStop
    \/ LowerPause
    \/ LowerAssociated
    \/ LowerRandomInit
    \/ LowerRandomNumber
    \/ LowerRandomSeed

Spec == Init /\ [][Next]_vars

(* ------------------------------ properties ----------------------------- *)

IsCall(o) == o.op = "call"

CurBlock(bs, p) == bs[BlockIndex(bs, p.block)]

BlockIds(bs) == [i \in 1..Len(bs) |-> bs[i].id]

NumCallsIn(ops) == Len(SelectSeq(ops, IsCall))

RECURSIVE SumCalls(_, _)
SumCalls(bs, i) ==
    IF i = 0 THEN 0 ELSE NumCallsIn(bs[i].ops) + SumCalls(bs, i - 1)

\* Number of Call Sites held by the region.
NumCalls(bs) == SumCalls(bs, Len(bs))

\* The Call Sites held by the region.
AllCalls(bs) ==
    UNION { { bs[i].ops[j] : j \in { k \in 1..Len(bs[i].ops) : IsCall(bs[i].ops[k]) } }
            : i \in 1..Len(bs) }

\* A termination statement has just been lowered.
StopDone == stmt.driver = "stop" /\ status = "running"

\* The block the last termination statement was lowered into: the one in
\* front of the block the insertion point now is in.
TerminatedBlock == blocks[BlockIndex(blocks, ip.block) - 1]

\* The call of the last termination statement.
StopCall == TerminatedBlock.ops[Len(TerminatedBlock.ops) - 1]

\* The operation in front of the insertion point.
LastOp(bs, p) == CurBlock(bs, p).ops[p.pos]

\* C1: the call of a termination statement ends with exactly two flag
\* actuals, isError then isQuiet; isError is 1 exactly for ERROR STOP;
\* isQuiet is the converted quiet operand when there is one and the
\* constant 0 when there is none.
C1_StopFlags ==
    StopDone =>
        LET c     == StopCall
            n     == Len(c.args)
            codeN == IF stmt.code = "char" THEN 2 ELSE 1
        IN  /\ IsCall(c)
            /\ n = codeN + 2
            /\ c.args[n - 1].src = "const"
            /\ c.args[n - 1].k = 1 <=> stmt.kind = "ErrorStop"
            /\ c.args[n - 1].k = 0 <=> stmt.kind = "Stop"
            /\ IF stmt.quiet = "absent"
               THEN c.args[n].src = "const" /\ c.args[n].k = 0
               ELSE c.args[n].src = "quiet"

C1_Witness ==
    /\ StopDone
    /\ stmt.kind = "ErrorStop"
    /\ stmt.quiet = "absent"
    /\ stmt.code = "char"

\* C2: the stop code alone fixes the entry and the code actuals: a textual
\* code gives StopStatementText with (address, length); a scalar code gives
\* StopStatement with the converted value; no code gives StopStatement with
\* the integer constant 0.
C2_StopEntryByCode ==
    StopDone =>
        LET c == StopCall
        IN  /\ IsCall(c)
            /\ c.callee \in funcs
            /\ stmt.code \in {"char", "unboxed", "absent"}
            /\ stmt.code = "char" =>
                 /\ c.callee = "StopStatementText"
                 /\ Len(c.args) = 4
                 /\ c.args[1] = Value("ref_i8", "addr", 0)
                 /\ c.args[2] = Value("i64", "len", 0)
            /\ stmt.code = "unboxed" =>
                 /\ c.callee = "StopStatement"
                 /\ Len(c.args) = 3
                 /\ c.args[1] = Value("i32", "code", 0)
            /\ stmt.code = "absent" =>
                 /\ c.callee = "StopStatement"
                 /\ Len(c.args) = 3
                 /\ c.args[1] = Value("i32", "const", 0)

C2_Witness == StopDone /\ stmt.code = "absent" /\ stmt.quiet # "absent"

\* The entry the RANDOM_SEED interface designates for each valid index.
DesignatedSeedEntry(i) ==
    CASE i = -1 -> "RandomSeedDefaultPut"
      [] i = 0  -> "RandomSeedSize"
      [] i = 1  -> "RandomSeedPut"
      [] i = 2  -> "RandomSeedGet"

\* C3: RANDOM_SEED with index -1 calls RandomSeedDefaultPut with no
\* actuals; 0, 1, 2 call RandomSeedSize, RandomSeedPut, RandomSeedGet with
\* [argBox, sourceFile, sourceLine]; any other index is a fatal error and
\* emits nothing.
C3_SeedDispatch ==
    [][stmt'.driver = "randomSeed" =>
         IF stmt'.argIndex \in -1..2
         THEN /\ status' = "running"
              /\ NumCalls(blocks') = NumCalls(blocks) + 1
              /\ LET c == LastOp(blocks', ip')
                 IN  /\ IsCall(c)
                     /\ c.callee = DesignatedSeedEntry(stmt'.argIndex)
                     /\ IF stmt'.argIndex = -1
                        THEN c.args = <<>>
                        ELSE /\ Len(c.args) = 3
                             /\ c.args[1].src = "argBox"
                             /\ c.args[2].src = "sourceFile"
                             /\ c.args[3].src = "sourceLine"
         ELSE /\ status' = "fatal"
              /\ blocks' = blocks
              /\ ip' = ip
              /\ funcs' = funcs]_vars

C3_Witness ==
    /\ stmt.driver = "randomSeed"
    /\ stmt.argIndex = 3
    /\ status = "fatal"
    /\ lowered = 1

\* Formal-parameter count of each runtime entry.
EntryArity(key) ==
    CASE key = "StopStatement"           -> 3
      [] key = "StopStatementText"       -> 4
      [] key = "PauseStatement"          -> 0
      [] key = "PointerIsAssociatedWith" -> 2
      [] key = "RandomInit"              -> 2
      [] key = "RandomNumber"            -> 3
      [] key = "RandomSeedDefaultPut"    -> 0
      [] key = "RandomSeedSize"          -> 3
      [] key = "RandomSeedPut"           -> 3
      [] key = "RandomSeedGet"           -> 3

\* C4: every Call Site has as many actuals as its entry has formals, and
\* each actual has the formal type of its own position.
C4_CallsMatchSignatures ==
    \A c \in AllCalls(blocks) :
        /\ c.callee \in RuntimeKeys
        /\ Len(c.args) = EntryArity(c.callee)
        /\ Len(c.args) = Len(RuntimeSignature(c.callee))
        /\ \A i \in 1..Len(c.args) :
              c.args[i].ty = RuntimeSignature(c.callee)[i]

C4_Witness ==
    /\ StopDone
    /\ stmt.code = "char"
    /\ stmt.codeTy = "ref_char"
    /\ stmt.quiet = "logical"
    /\ lowered = 2

\* C5 as claimed: after a termination statement the old block ends with the
\* call and the unreachable, and the insertion point is at the start of a
\* new block that is empty, wherever the insertion point was.
C5_StopOpensEmptyBlock ==
    StopDone =>
        LET tb == TerminatedBlock
            n  == Len(tb.ops)
        IN  /\ n >= 2
            /\ IsCall(tb.ops[n - 1])
            /\ tb.ops[n].op = "unreachable"
            /\ ip.pos = 0
            /\ CurBlock(blocks, ip).ops = <<>>

\* C5 amended: after a termination statement the old block ends with the
\* call and the unreachable, and the insertion point is at the start of a
\* new block that holds exactly the operations that followed the insertion
\* point in the old block; it is empty when none did.
C5_StopSplitsAtInsertionPoint ==
    [][(stmt'.driver = "stop" /\ status' = "running") =>
         LET old == CurBlock(blocks, ip)
             tb  == CurBlock(blocks', ip)
             n   == Len(tb.ops)
         IN  /\ n >= 2
             /\ IsCall(tb.ops[n - 1])
             /\ tb.ops[n].op = "unreachable"
             /\ SubSeq(tb.ops, 1, ip.pos) = SubSeq(old.ops, 1, ip.pos)
             /\ \A i \in 1..Len(blocks) : blocks[i].id # ip'.block
             /\ ip'.pos = 0
             /\ CurBlock(blocks', ip').ops
                  = SubSeq(old.ops, ip.pos + 1, Len(old.ops))
             /\ ip.pos = Len(old.ops) => CurBlock(blocks', ip').ops = <<>>]_vars

C5_Witness ==
    /\ StopDone
    /\ Len(blocks) = 3
    /\ CurBlock(blocks, ip).ops = <<OtherOp, BranchOp(ExitBlock)>>

\* C6: a stop code that is neither textual nor scalar is reported at the
\* statement's location and aborts: no entry resolved, nothing emitted, no
\* block split.
C6_UnhandledStopCodeAborts ==
    [][(stmt'.driver = "stop" /\ stmt'.code \notin {"absent", "char", "unboxed"}) =>
         /\ status' = "exited"
         /\ Len(diags') = Len(diags) + 1
         /\ diags'[Len(diags')].line = stmt'.line
         /\ SubSeq(diags', 1, Len(diags)) = diags
         /\ funcs' = funcs
         /\ blocks' = blocks
         /\ ip' = ip
         /\ lowered' = lowered]_vars

C6_Witness ==
    /\ status = "exited"
    /\ stmt.driver = "stop"
    /\ stmt.code = "other"
    /\ Len(diags) = 1
    /\ diags[1].line = 2

\* C7: after n successful lowerings the region holds n Call Sites.
C7_OneCallPerLowering == NumCalls(blocks) = lowered

C7_Witness ==
    /\ lowered = 2
    /\ status = "running"
    /\ stmt.driver = "randomSeed"
    /\ stmt.argIndex = -1
    /\ Len(blocks) = 3

\* Blocks a terminator of block id branches to.
Succs(bs, id) ==
    LET blk == CurBlock(bs, [block |-> id, pos |-> 0])
    IN  UNION { blk.ops[j].succ : j \in 1..Len(blk.ops) }

\* Blocks holding an operation that branches to block id.
Preds(bs, id) == { bs[i].id : i \in { k \in 1..Len(bs) : id \in Succs(bs, bs[k].id) } }

RECURSIVE ReachableFrom(_, _)
ReachableFrom(bs, S) ==
    LET N == S \cup UNION { Succs(bs, x) : x \in S }
    IN  IF N = S THEN S ELSE ReachableFrom(bs, N)

\* The blocks opened by the terminator handler.
OpenedBlocks(bs) == { bs[i].id : i \in 1..Len(bs) } \ {EntryBlock, ExitBlock}

\* C8: a block opened by the terminator handler has no predecessor and is
\* not reachable from the entry block.
C8_OpenedBlocksUnreachable ==
    \A id \in OpenedBlocks(blocks) :
        /\ Preds(blocks, id) = {}
        /\ id \notin ReachableFrom(blocks, {EntryBlock})

C8_Witness ==
    /\ status = "running"
    /\ stmt.driver = "pause"
    /\ ip.block \in OpenedBlocks(blocks)
    /\ ExitBlock \in Succs(blocks, ip.block)

NonTerminatingDrivers ==
    {"pause", "associated", "randomInit", "randomNumber", "randomSeed"}

\* A block is open when it does not end with a terminator.
IsOpen(blk) == blk.ops = <<>> \/ ~IsTerminator(blk.ops[Len(blk.ops)])

SourceLocSrcs == {"sourceFile", "sourceLine"}

\* C10: the source file name and line are the last two actuals, after the
\* box operand, of the calls to RandomNumber and RandomSeedSize/Put/Get,
\* and are actuals of no other call.
C10_SourceLocWhereDeclared ==
    /\ \A c \in AllCalls(blocks) :
          /\ c.callee \in {"StopStatement", "StopStatementText", "PauseStatement"} =>
                \A i \in 1..Len(c.args) : c.args[i].src \notin SourceLocSrcs
          /\ c.callee \in {"RandomNumber", "RandomSeedSize", "RandomSeedPut",
                           "RandomSeedGet"} =>
                /\ Len(c.args) = 3
                /\ c.args[1].src \in {"harvest", "argBox"}
                /\ c.args[2].src = "sourceFile"
                /\ c.args[3].src = "sourceLine"
          /\ DeclaresSourceLoc(c.callee)
                <=> \E i \in 1..Len(c.args) : c.args[i].src \in SourceLocSrcs
    /\ (/\ status = "running"
        /\ \/ stmt.driver = "randomNumber"
           \/ stmt.driver = "randomSeed" /\ stmt.argIndex # -1) =>
          LET c == LastOp(blocks, ip)
          IN  /\ IsCall(c)
              /\ Len(c.args) = 3
              /\ c.args[3].k = stmt.line

C10_Witness ==
    /\ status = "running"
    /\ stmt.driver = "randomNumber"
    /\ stmt.line = 2
    /\ stmt.argTy = "ref_box"

====
